---- MODULE Spec2Model ----
(***************************************************************************)
(* Model of Mapepire.execute (src/src/nodes/Mapepire/Mapepire.node.ts):    *)
(* the per-item loop that acquires an SQLJob, runs the SQL paging flow or  *)
(* the CL command flow, shapes the output and releases the job.            *)
(*                                                                         *)
(* Every `await` of the code is one step of the model; the session client  *)
(* (@ibm/mapepire-js SQLJob/Query) and the n8n host are the environment:   *)
(* each of their calls either returns a value drawn from a small set or    *)
(* throws.                                                                 *)
(***************************************************************************)
EXTENDS Integers, Sequences, FiniteSets, TLC

\* ------------------------------------------------------------------ bounds
MaxItems == 2       \* at most this many input items in a run
MaxPages == 1       \* a statement needs at most this many fetchMore calls

\* --------------------------------------------------------------- constants
DefaultFetchSize == 100

VARIABLES
    items,            \* this.getInputData()
    continueOnFail,   \* this.continueOnFail()
    credentials,      \* this.getCredentials('mapepireApi')
    reuseConnection,  \* !!additionalFields(item 0).reuseConnection
    sharedJob,        \* let sharedJob: SQLJob | null
    returnItems,      \* the json of each element of returnItems
    i,                \* loop index
    cur,              \* mode, fetchSize, additional, sql, cl resolved for item i
    job,              \* const job = await getJob()
    query,            \* the handle returned by job.query / job.clcommand
    res,              \* let res: the last page received
    rows,             \* const rows: unknown[]
    err,              \* the value caught by catch (err)
    completion,       \* how the try/catch block completes while finally runs
    thrown,           \* the value with which execute rejects
    pc,               \* position of the control flow
    jobs,             \* history: state of every SQLJob constructed so far
    handles,          \* history: number of handles handed out by the client
    log,              \* history: every call made on the session client and of JSON.parse
    outItem,          \* history: the item that pushed each element of returnItems
    pages,            \* history: the pages received for the current statement
    resolved,         \* history: the mode and output mode resolved for each item so far
    fetched,          \* history: the rows received for each statement that was finished
    spin              \* history: parity of the fetches made past MaxPages

vars == << items, continueOnFail, credentials, reuseConnection, sharedJob,
           returnItems, i, cur, job, query, res, rows, err, completion,
           thrown, pc, jobs, handles, log, outItem, pages, resolved, fetched, spin >>

\* ----------------------------------------------------------------- values
Null   == 0                               \* null job / no handle
NoRec  == << >>                           \* an object without properties
Has(o, k) == k \in DOMAIN o               \* o.k !== undefined
JsNull == "<null>"                        \* null in an output record
NoPage == [data |-> << >>, is_done |-> TRUE, metadata |-> NoRec, update_count |-> 0]

\* new Error(message)
Error(message) == [class |-> "Error", name |-> "Error", message |-> message, stack |-> "stack"]

\* -------------------------------------------------------- object helpers
\* { ...a, ...b }
Merge(a, b) == [k \in (DOMAIN a) \cup (DOMAIN b) |-> IF k \in DOMAIN b THEN b[k] ELSE a[k]]
\* the object with property k set to v
Prop(k, v) == [x \in {k} |-> v]
\* the properties of o among keys
Pick(o, keys) == [k \in keys \cap DOMAIN o |-> o[k]]

\* ------------------------------------------------------------ credentials
\* const creds: DaemonServer = { host, user, password, port, rejectUnauthorized, ca }
creds ==
    Merge([host               |-> credentials.host,
           user               |-> credentials.user,
           password           |-> credentials.password,
           port               |-> credentials.port,
           rejectUnauthorized |-> ~credentials.ignoreUnauthorized],
          IF Has(credentials, "ca") /\ credentials.ca # ""
            THEN Prop("ca", credentials.ca) ELSE NoRec)

\* -------------------------------------------------------- normalizeError
\* String(e) of a raised value without a usable message: Error.prototype.toString
\* gives the name of an Error, Object.prototype.toString "[object Object]"
StringOf(e) ==
    IF Has(e, "class") /\ e.class = "Error"
      THEN (IF Has(e, "name") THEN e.name ELSE "Error")
    ELSE IF Has(e, "class") /\ e.class = "string" THEN e.value
    ELSE IF Has(e, "class") /\ e.class = "null" THEN "null"
    ELSE "[object Object]"

\* code: err?.sqlcode ?? err?.code: the SQL code is preferred
normalizeError_SqlcodeFirst(e) ==
    Merge(Merge(Prop("message", IF Has(e, "message") /\ e.message # ""
                                  THEN e.message ELSE StringOf(e)),
                Pick(e, {"name", "sqlState", "stack"})),
          IF Has(e, "sqlcode") THEN Prop("code", e.sqlcode)
          ELSE IF Has(e, "code") THEN Prop("code", e.code)
          ELSE NoRec)

normalizeError(e) ==
    Merge(Merge(Prop("message", IF Has(e, "message") /\ e.message # ""
                                  THEN e.message ELSE StringOf(e)),
                Pick(e, {"name", "sqlState", "stack"})),
          IF Has(e, "code") THEN Prop("code", e.code)
          ELSE IF Has(e, "sqlcode") THEN Prop("code", e.sqlcode)
          ELSE NoRec)

\* ------------------------------------------------------ query options
\* JSON.parse on the texts the runs use: the parsed value and its typeof,
\* or the SyntaxError it throws
JSONParse(text) ==
    CASE text = "[1]"      -> [ok |-> TRUE, typeof |-> "object", isNull |-> FALSE, value |-> << 1 >>]
      [] text = "{\"ID\":1}" -> [ok |-> TRUE, typeof |-> "object", isNull |-> FALSE, value |-> [ID |-> 1]]
      [] text = "null"     -> [ok |-> TRUE, typeof |-> "object", isNull |-> TRUE, value |-> NoRec]
      [] text = "5"        -> [ok |-> TRUE, typeof |-> "number", isNull |-> FALSE, value |-> 5]
      [] text = "\"a\""    -> [ok |-> TRUE, typeof |-> "string", isNull |-> FALSE, value |-> "a"]
      [] text = "true"     -> [ok |-> TRUE, typeof |-> "boolean", isNull |-> FALSE, value |-> TRUE]
      [] OTHER             -> [ok |-> FALSE, message |-> "Unexpected token in JSON"]

\* line 229: `Invalid Parameters JSON: ${message}`
InvalidParameters(message) ==
    CASE message = "Unexpected token in JSON" ->
           "Invalid Parameters JSON: Unexpected token in JSON"
      [] message = "Parameters JSON must be an array or object" ->
           "Invalid Parameters JSON: Parameters JSON must be an array or object"

\* without the useParameters test: a parametersJson that is there is parsed
ParseParameters_WheneverGiven(additional) ==
    IF ~(Has(additional, "parametersJson") /\ additional.parametersJson # "")
      THEN [kind |-> "skip"]
      ELSE LET parsed == JSONParse(additional.parametersJson)
           IN  IF ~parsed.ok
                 THEN [kind |-> "fail", error |-> Error(InvalidParameters(parsed.message))]
               ELSE IF parsed.typeof # "object" \/ parsed.isNull
                 THEN [kind |-> "fail",
                       error |-> Error(InvalidParameters("Parameters JSON must be an array or object"))]
               ELSE [kind |-> "ok", value |-> parsed.value]

\* without the typeof test: whatever JSON.parse returns is bound
ParseParameters_AnyJson(additional) ==
    IF ~(Has(additional, "useParameters") /\ additional.useParameters
         /\ Has(additional, "parametersJson") /\ additional.parametersJson # "")
      THEN [kind |-> "skip"]
      ELSE LET parsed == JSONParse(additional.parametersJson)
           IN  IF ~parsed.ok
                 THEN [kind |-> "fail", error |-> Error(InvalidParameters(parsed.message))]
                 ELSE [kind |-> "ok", value |-> parsed.value]

\* lines 221-231: the parameters parsed from additional.parametersJson:
\* skip (nothing to parse), ok (value) or fail (the Error thrown); the Error
\* thrown for a value that is no object is caught by the same catch as the
\* SyntaxError and wrapped the same way
ParseParameters(additional) ==
    IF ~(Has(additional, "useParameters") /\ additional.useParameters
         /\ Has(additional, "parametersJson") /\ additional.parametersJson # "")
      THEN [kind |-> "skip"]
      ELSE LET parsed == JSONParse(additional.parametersJson)
           IN  IF ~parsed.ok
                 THEN [kind |-> "fail", error |-> Error(InvalidParameters(parsed.message))]
               ELSE IF parsed.typeof # "object" \/ parsed.isNull
                 THEN [kind |-> "fail",
                       error |-> Error(InvalidParameters("Parameters JSON must be an array or object"))]
               ELSE [kind |-> "ok", value |-> parsed.value]

\* without the > 0 test: a queryTimeout that is there is always forwarded
QueryOpts_TimeoutWheneverGiven(additional, parsed) ==
    Merge(Merge(Pick(additional, {"isTerseResults"}),
                IF Has(additional, "queryTimeout")
                  THEN Prop("timeout", additional.queryTimeout) ELSE NoRec),
          IF parsed.kind = "ok" THEN Prop("parameters", parsed.value) ELSE NoRec)

\* the parsed value is validated and never handed to job.query
QueryOpts_WithoutParameters(additional, parsed) ==
    Merge(Pick(additional, {"isTerseResults"}),
          IF Has(additional, "queryTimeout") /\ additional.queryTimeout > 0
            THEN Prop("timeout", additional.queryTimeout) ELSE NoRec)

\* lines 215-231: queryOpts, given the parameters that were parsed
QueryOpts(additional, parsed) ==
    Merge(Merge(Pick(additional, {"isTerseResults"}),
                IF Has(additional, "queryTimeout") /\ additional.queryTimeout > 0
                  THEN Prop("timeout", additional.queryTimeout) ELSE NoRec),
          IF parsed.kind = "ok" THEN Prop("parameters", parsed.value) ELSE NoRec)

\* ------------------------------------------------------- output shaping
\* if (additional.includeMetadata): an absent option leaves the metadata out
IncludeMetadata_Truthy(additional) ==
    Has(additional, "includeMetadata") /\ additional.includeMetadata = TRUE

\* additional.includeMetadata !== false
IncludeMetadata(additional) ==
    ~(Has(additional, "includeMetadata") /\ additional.includeMetadata = FALSE)

\* lines 242-246: payload
Payload(additional, allRows, page) ==
    Merge(Prop("rows", allRows),
          IF IncludeMetadata(additional)
            THEN [metadata |-> page.metadata, updateCount |-> page.update_count]
            ELSE NoRec)

\* lines 249-251: rowItem
RowItem(additional, r, page) ==
    IF IncludeMetadata(additional)
      THEN [row |-> r, metadata |-> page.metadata]
      ELSE [row |-> r]

\* additional.outputMode === 'perRow'
PerRow(additional) == Has(additional, "outputMode") /\ additional.outputMode = "perRow"

\* an empty result set pushes nothing
SqlOutput_SkipEmpty(additional, allRows, page) ==
    IF allRows = << >> THEN << >>
    ELSE IF PerRow(additional)
      THEN [k \in 1..Len(allRows) |-> RowItem(additional, allRows[k], page)]
      ELSE << Payload(additional, allRows, page) >>

\* lines 247-256: the records pushed for a finished statement
SqlOutput(additional, allRows, page) ==
    IF PerRow(additional)
      THEN [k \in 1..Len(allRows) |-> RowItem(additional, allRows[k], page)]
      ELSE << Payload(additional, allRows, page) >>

\* message: res.error, without `|| null`: a result without error has no message
ClOutput_MessageOnlyOnError(result) ==
    Merge([success |-> result.success, data |-> result.data],
          IF Has(result, "error") /\ result.error # "" /\ result.error # JsNull
            THEN Prop("message", result.error) ELSE NoRec)

\* lines 261-267: the record pushed for a CL command result
ClOutput(result) ==
    [success |-> result.success,
     data    |-> result.data,
     message |-> IF Has(result, "error") /\ result.error # "" /\ result.error # JsNull
                   THEN result.error ELSE JsNull]

\* ---------------------------------------------------------- environment
\* The n-th page (n = 0 for execute) a statement's handle returns, with cnt rows
Row(n, k) == [COL1 |-> << n, k >>]
Page(n, cnt, done) ==
    [data         |-> [k \in 1..cnt |-> Row(n, k)],
     is_done      |-> done,
     metadata     |-> [columns |-> << "COL1" >>, page |-> n],
     update_count |-> n]

\* The pages the client may return as n-th page: a statement is done after at
\* most MaxPages fetchMore calls
Pages(env, n) ==
    { Page(n, cnt, done) : cnt \in env.rowCounts,
                           done \in IF n < MaxPages THEN BOOLEAN ELSE {TRUE} }

\* the number of rows in a sequence of pages
RECURSIVE SumRows(_)
SumRows(ps) == IF ps = << >> THEN 0 ELSE Len(ps[1].data) + SumRows(Tail(ps))

\* !!additional.reuseConnection
Truthy(additional, k) == Has(additional, k) /\ additional[k] = TRUE

\* locals outside an iteration of the loop
NoCur == [mode |-> "", fetchSize |-> 0, additional |-> NoRec, sql |-> "", cl |-> ""]

\* one call on the session client, or of JSON.parse
Call(op, j, h, ok, arg) ==
    [op |-> op, item |-> i, job |-> j, handle |-> h, ok |-> ok, arg |-> arg]

\* --------------------------------------------------------------- the run
\* the shared job connected before the loop, whether or not there is an item
InitWith_SharedJobConnected(env) ==
    /\ items \in { [k \in 1..n |-> [json |-> NoRec]] : n \in env.items }
    /\ continueOnFail \in env.continueOnFail
    /\ credentials \in env.credentials
    /\ reuseConnection \in { Truthy(r, "reuseConnection") : r \in env.reuse }
    /\ sharedJob = (IF reuseConnection THEN 1 ELSE Null)
    /\ returnItems = << >>
    /\ i = 0
    /\ cur = NoCur
    /\ job = Null
    /\ query = Null
    /\ res = NoPage
    /\ rows = << >>
    /\ err = NoRec
    /\ completion = "none"
    /\ thrown = NoRec
    /\ pc = "loop"
    /\ jobs = (IF reuseConnection THEN << "connected" >> ELSE << >>)
    /\ handles = 0
    /\ log = (IF reuseConnection THEN << Call("connect", 1, Null, TRUE, creds) >> ELSE << >>)
    /\ outItem = << >>
    /\ pages = << >>
    /\ resolved = << >>
    /\ fetched = << >>
    /\ spin = 0

\* lines 146-182: the state when the item loop is entered
InitWith(env) ==
    /\ items \in { [k \in 1..n |-> [json |-> NoRec]] : n \in env.items }
    /\ continueOnFail \in env.continueOnFail
    /\ credentials \in env.credentials
    /\ reuseConnection \in { Truthy(r, "reuseConnection") : r \in env.reuse }
    /\ sharedJob = Null
    /\ returnItems = << >>
    /\ i = 0
    /\ cur = NoCur
    /\ job = Null
    /\ query = Null
    /\ res = NoPage
    /\ rows = << >>
    /\ err = NoRec
    /\ completion = "none"
    /\ thrown = NoRec
    /\ pc = "loop"
    /\ jobs = << >>
    /\ handles = 0
    /\ log = << >>
    /\ outItem = << >>
    /\ pages = << >>
    /\ resolved = << >>
    /\ fetched = << >>
    /\ spin = 0

\* the locals of an iteration go out of scope
LeaveItem ==
    /\ cur' = NoCur
    /\ job' = Null
    /\ query' = Null
    /\ res' = NoPage
    /\ rows' = << >>
    /\ err' = NoRec
    /\ completion' = "none"
    /\ pages' = << >>

\* returnItems.unshift(...records): the records are put in front
Push_Unshift(records) ==
    /\ returnItems' = records \o returnItems
    /\ outItem' = [k \in 1..Len(records) |-> i] \o outItem

\* returnItems.push(...records) by the current item
Push(records) ==
    /\ returnItems' = returnItems \o records
    /\ outItem' = outItem \o [k \in 1..Len(records) |-> i]

\* lines 197-207: loop test and the parameters resolved for item i
ResolveItem(env) ==
    /\ pc = "loop"
    /\ i < Len(items)
    /\ \E p \in env.params, r \in env.reuse :
         /\ (i = 0 \/ ~env.reuseVaries) => (Truthy(r, "reuseConnection") <=> reuseConnection)
         /\ cur' = [p EXCEPT !.additional = Merge(p.additional, r)]
    /\ resolved' = Append(resolved, [mode |-> cur'.mode, perRow |-> PerRow(cur'.additional)])
    /\ pc' = "getJob"
    /\ UNCHANGED << items, continueOnFail, credentials, reuseConnection, sharedJob,
                    returnItems, i, job, query, res, rows, err, completion,
                    thrown, jobs, handles, log, outItem, pages, fetched, spin >>

\* lines 185-190: getJob returns the shared job that is already there
GetSharedJob ==
    /\ pc = "getJob"
    /\ reuseConnection
    /\ sharedJob # Null
    /\ job' = sharedJob
    /\ pc' = "try"
    /\ UNCHANGED << items, continueOnFail, credentials, reuseConnection, sharedJob,
                    returnItems, i, cur, query, res, rows, err, completion,
                    thrown, jobs, handles, log, outItem, pages, resolved, fetched, spin >>

\* getJob without the sharedJob test: every acquisition connects a new job
ConnectOk_IgnoringShared ==
    /\ pc = "getJob"
    /\ LET id == Len(jobs) + 1
       IN  /\ sharedJob' = IF reuseConnection THEN id ELSE sharedJob
           /\ jobs' = Append(jobs, "connected")
           /\ log' = Append(log, Call("connect", id, Null, TRUE, creds))
           /\ job' = id
    /\ pc' = "try"
    /\ UNCHANGED << items, continueOnFail, credentials, reuseConnection,
                    returnItems, i, cur, query, res, rows, err, completion,
                    thrown, handles, outItem, pages, resolved, fetched, spin >>

\* lines 186-194: getJob constructs a job and connect resolves
ConnectOk ==
    /\ pc = "getJob"
    /\ ~(reuseConnection /\ sharedJob # Null)
    /\ LET id == Len(jobs) + 1
       IN  /\ sharedJob' = IF reuseConnection THEN id ELSE sharedJob
           /\ jobs' = Append(jobs, "connected")
           /\ log' = Append(log, Call("connect", id, Null, TRUE, creds))
           /\ job' = id
    /\ pc' = "try"
    /\ UNCHANGED << items, continueOnFail, credentials, reuseConnection,
                    returnItems, i, cur, query, res, rows, err, completion,
                    thrown, handles, outItem, pages, resolved, fetched, spin >>

\* lines 186-194, 209: connect rejects; the call is outside the try block
ConnectFail(env) ==
    /\ pc = "getJob"
    /\ ~(reuseConnection /\ sharedJob # Null)
    /\ LET id == Len(jobs) + 1
       IN  /\ sharedJob' = IF reuseConnection THEN id ELSE sharedJob
           /\ jobs' = Append(jobs, "connectFailed")
           /\ log' = Append(log, Call("connect", id, Null, FALSE, creds))
    /\ \E e \in env.errors["connect"] : thrown' = e
    /\ pc' = "thrown"
    /\ LeaveItem
    /\ UNCHANGED << items, continueOnFail, credentials, reuseConnection,
                    returnItems, i, handles, outItem, resolved, fetched, spin >>

\* what execute reads once and never assigns again
inputs == << items, continueOnFail, credentials, reuseConnection >>

\* lines 221-231: the parameters JSON is rejected before anything is submitted
ParametersInvalid ==
    /\ pc = "try"
    /\ cur.mode = "sql"
    /\ ParseParameters(cur.additional).kind = "fail"
    /\ err' = ParseParameters(cur.additional).error
    /\ log' = Append(log, Call("parse", Null, Null, FALSE, cur.additional.parametersJson))
    /\ pc' = "catch"
    /\ UNCHANGED << inputs, sharedJob, returnItems, i, cur, job, query, res, rows,
                    completion, thrown, jobs, handles, outItem, pages, resolved, fetched, spin >>

\* lines 221-231: the calls made while the parameters are parsed
ParseCalls(parsed) ==
    IF parsed.kind = "skip" THEN << >>
    ELSE << Call("parse", Null, Null, parsed.kind = "ok", cur.additional.parametersJson) >>

\* the dispatch written as mode !== 'cl': whatever is not 'cl' runs as SQL
QueryOk_UnlessCl ==
    /\ pc = "try"
    /\ cur.mode # "cl"
    /\ LET parsed == ParseParameters(cur.additional)
       IN  /\ parsed.kind # "fail"
           /\ handles' = handles + 1
           /\ query' = handles + 1
           /\ log' = Append(log \o ParseCalls(parsed), Call("query", job, handles + 1, TRUE,
                                      [sql |-> cur.sql, opts |-> QueryOpts(cur.additional, parsed)]))
    /\ pc' = "execute"
    /\ UNCHANGED << inputs, sharedJob, returnItems, i, cur, job, res, rows, err,
                    completion, thrown, jobs, outItem, pages, resolved, fetched, spin >>

\* a statement cache on the job: job.query hands out the one handle it has
QueryOk_OneHandlePerJob ==
    /\ pc = "try"
    /\ cur.mode = "sql"
    /\ LET parsed == ParseParameters(cur.additional)
       IN  /\ parsed.kind # "fail"
           /\ handles' = job
           /\ query' = job
           /\ log' = Append(log \o ParseCalls(parsed), Call("query", job, job, TRUE,
                                      [sql |-> cur.sql, opts |-> QueryOpts(cur.additional, parsed)]))
    /\ pc' = "execute"
    /\ UNCHANGED << inputs, sharedJob, returnItems, i, cur, job, res, rows, err,
                    completion, thrown, jobs, outItem, pages, resolved, fetched, spin >>

\* lines 212-233: job.query(sql, queryOpts) returns a handle
QueryOk ==
    /\ pc = "try"
    /\ cur.mode = "sql"
    /\ LET parsed == ParseParameters(cur.additional)
       IN  /\ parsed.kind # "fail"
           /\ handles' = handles + 1
           /\ query' = handles + 1
           /\ log' = Append(log \o ParseCalls(parsed), Call("query", job, handles + 1, TRUE,
                                      [sql |-> cur.sql, opts |-> QueryOpts(cur.additional, parsed)]))
    /\ pc' = "execute"
    /\ UNCHANGED << inputs, sharedJob, returnItems, i, cur, job, res, rows, err,
                    completion, thrown, jobs, outItem, pages, resolved, fetched, spin >>

\* lines 212-233: job.query(sql, queryOpts) throws
QueryFail(env) ==
    /\ pc = "try"
    /\ cur.mode = "sql"
    /\ LET parsed == ParseParameters(cur.additional)
       IN  /\ parsed.kind # "fail"
           /\ log' = Append(log \o ParseCalls(parsed), Call("query", job, Null, FALSE,
                                      [sql |-> cur.sql, opts |-> QueryOpts(cur.additional, parsed)]))
    /\ \E e \in env.errors["query"] : err' = e
    /\ pc' = "catch"
    /\ UNCHANGED << inputs, sharedJob, returnItems, i, cur, job, query, res, rows,
                    completion, thrown, jobs, handles, outItem, pages, resolved, fetched, spin >>

\* the rows of the first page are pushed as soon as they arrive
ExecuteOk_Streaming(env) ==
    /\ pc = "execute"
    /\ \E page \in Pages(env, 0) :
         /\ res' = page
         /\ rows' = page.data
         /\ pages' = << page >>
         /\ Push([k \in 1..Len(page.data) |-> RowItem(cur.additional, page.data[k], page)])
    /\ log' = Append(log, Call("execute", job, query, TRUE, cur.fetchSize))
    /\ pc' = "paging"
    /\ UNCHANGED << inputs, sharedJob, i, cur, job, query, err,
                    completion, thrown, jobs, handles, resolved, fetched, spin >>

\* lines 234-236: query.execute(fetchSize) resolves with the first page
ExecuteOk(env) ==
    /\ pc = "execute"
    /\ \E page \in Pages(env, 0) :
         /\ res' = page
         /\ rows' = page.data
         /\ pages' = << page >>
    /\ log' = Append(log, Call("execute", job, query, TRUE, cur.fetchSize))
    /\ pc' = "paging"
    /\ UNCHANGED << inputs, sharedJob, returnItems, i, cur, job, query, err,
                    completion, thrown, jobs, handles, outItem, resolved, fetched, spin >>

\* line 234: query.execute(fetchSize) rejects
ExecuteFail(env) ==
    /\ pc = "execute"
    /\ log' = Append(log, Call("execute", job, query, FALSE, cur.fetchSize))
    /\ \E e \in env.errors["execute"] : err' = e
    /\ pc' = "catch"
    /\ UNCHANGED << inputs, sharedJob, returnItems, i, cur, job, query, res, rows,
                    completion, thrown, jobs, handles, outItem, pages, resolved, fetched, spin >>

\* a do-while loop: fetchMore is called whether or not the last page was done
FetchMoreOk_PastDone(env) ==
    /\ pc = "paging"
    /\ Len(pages) <= MaxPages
    /\ \E page \in Pages(env, Len(pages)) :
         /\ res' = page
         /\ rows' = rows \o page.data
         /\ pages' = Append(pages, page)
    /\ log' = Append(log, Call("fetchMore", job, query, TRUE, cur.fetchSize))
    /\ pc' = "paging"
    /\ UNCHANGED << inputs, sharedJob, returnItems, i, cur, job, query, err,
                    completion, thrown, jobs, handles, outItem, resolved, fetched, spin >>

\* rows.unshift(...res.data): the rows of a later page are put in front
FetchMoreOk_RowsInFront(env) ==
    /\ pc = "paging"
    /\ ~res.is_done
    /\ \E page \in Pages(env, Len(pages)) :
         /\ res' = page
         /\ rows' = page.data \o rows
         /\ pages' = Append(pages, page)
    /\ log' = Append(log, Call("fetchMore", job, query, TRUE, cur.fetchSize))
    /\ pc' = "paging"
    /\ UNCHANGED << inputs, sharedJob, returnItems, i, cur, job, query, err,
                    completion, thrown, jobs, handles, outItem, resolved, fetched, spin >>

\* rows = res.data in the loop: only the rows of the last page are kept
FetchMoreOk_LastPageOnly(env) ==
    /\ pc = "paging"
    /\ ~res.is_done
    /\ \E page \in Pages(env, Len(pages)) :
         /\ res' = page
         /\ rows' = page.data
         /\ pages' = Append(pages, page)
    /\ log' = Append(log, Call("fetchMore", job, query, TRUE, cur.fetchSize))
    /\ pc' = "paging"
    /\ UNCHANGED << inputs, sharedJob, returnItems, i, cur, job, query, err,
                    completion, thrown, jobs, handles, outItem, resolved, fetched, spin >>

\* lines 237-240: the loop test passes, query.fetchMore(fetchSize) resolves
FetchMoreOk(env) ==
    /\ pc = "paging"
    /\ ~res.is_done
    /\ \E page \in Pages(env, Len(pages)) :
         /\ res' = page
         /\ rows' = rows \o page.data
         /\ pages' = Append(pages, page)
    /\ log' = Append(log, Call("fetchMore", job, query, TRUE, cur.fetchSize))
    /\ pc' = "paging"
    /\ UNCHANGED << inputs, sharedJob, returnItems, i, cur, job, query, err,
                    completion, thrown, jobs, handles, outItem, resolved, fetched, spin >>

\* lines 237-240 for a statement that is not done after MaxPages fetchMore calls:
\* the loop test passes again and fetchMore brings one more empty page that is
\* not the last. The histories (log, pages) are not extended past MaxPages;
\* spin tells one such fetch from the next.
FetchMoreEndless ==
    /\ pc = "paging"
    /\ ~res.is_done
    /\ Len(pages) = MaxPages
    /\ res' = Page(MaxPages, 0, FALSE)
    /\ rows' = rows \o Page(MaxPages, 0, FALSE).data
    /\ spin' = 1 - spin
    /\ pc' = "paging"
    /\ UNCHANGED << inputs, sharedJob, returnItems, i, cur, job, query, err,
                    completion, thrown, jobs, handles, log, outItem, pages, resolved,
                    fetched >>

\* lines 237-238: the loop test passes, query.fetchMore(fetchSize) rejects
FetchMoreFail(env) ==
    /\ pc = "paging"
    /\ ~res.is_done
    /\ log' = Append(log, Call("fetchMore", job, query, FALSE, cur.fetchSize))
    /\ \E e \in env.errors["fetchMore"] : err' = e
    /\ pc' = "catch"
    /\ UNCHANGED << inputs, sharedJob, returnItems, i, cur, job, query, res, rows,
                    completion, thrown, jobs, handles, outItem, pages, resolved, fetched, spin >>

\* a loop with an iteration cap: it gives up on a statement that is not done
ShapeSql_IterationCap ==
    /\ pc = "paging"
    /\ res.is_done \/ spin = 1
    /\ Push(SqlOutput(cur.additional, rows, res))
    /\ fetched' = Append(fetched, [item |-> i, rows |-> SumRows(pages)])
    /\ completion' = "normal"
    /\ pc' = "finally"
    /\ UNCHANGED << inputs, sharedJob, i, cur, job, query, res, rows, err,
                    thrown, jobs, handles, log, pages, resolved, spin >>

\* the page execute returned is kept aside: metadata and updateCount are
\* those of the first page
ShapeSql_FirstPage ==
    /\ pc = "paging"
    /\ res.is_done
    /\ Push(SqlOutput(cur.additional, rows, pages[1]))
    /\ fetched' = Append(fetched, [item |-> i, rows |-> SumRows(pages)])
    /\ completion' = "normal"
    /\ pc' = "finally"
    /\ UNCHANGED << inputs, sharedJob, i, cur, job, query, res, rows, err,
                    thrown, jobs, handles, log, pages, resolved, spin >>

\* lines 237, 242-256: the loop test fails, the statement's output is pushed
ShapeSql ==
    /\ pc = "paging"
    /\ res.is_done
    /\ Push(SqlOutput(cur.additional, rows, res))
    /\ fetched' = Append(fetched, [item |-> i, rows |-> SumRows(pages)])
    /\ completion' = "normal"
    /\ pc' = "finally"
    /\ UNCHANGED << inputs, sharedJob, i, cur, job, query, res, rows, err,
                    thrown, jobs, handles, log, pages, resolved, spin >>

\* lines 258-259: job.clcommand(cl) resolves with a handle
ClCommandOk ==
    /\ pc = "try"
    /\ cur.mode # "sql"
    /\ handles' = handles + 1
    /\ query' = handles + 1
    /\ log' = Append(log, Call("clcommand", job, handles + 1, TRUE, cur.cl))
    /\ pc' = "clexecute"
    /\ UNCHANGED << inputs, sharedJob, returnItems, i, cur, job, res, rows, err,
                    completion, thrown, jobs, outItem, pages, resolved, fetched, spin >>

\* line 259: job.clcommand(cl) rejects
ClCommandFail(env) ==
    /\ pc = "try"
    /\ cur.mode # "sql"
    /\ log' = Append(log, Call("clcommand", job, Null, FALSE, cur.cl))
    /\ \E e \in env.errors["clcommand"] : err' = e
    /\ pc' = "catch"
    /\ UNCHANGED << inputs, sharedJob, returnItems, i, cur, job, query, res, rows,
                    completion, thrown, jobs, handles, outItem, pages, resolved, fetched, spin >>

\* lines 260-267: query.execute() resolves, the command's record is pushed
ClExecuteOk(env) ==
    /\ pc = "clexecute"
    /\ \E result \in env.clResults :
         /\ res' = result
         /\ Push(<< ClOutput(result) >>)
    /\ log' = Append(log, Call("clexecute", job, query, TRUE, NoRec))
    /\ completion' = "normal"
    /\ pc' = "finally"
    /\ UNCHANGED << inputs, sharedJob, i, cur, job, query, rows, err,
                    thrown, jobs, handles, pages, resolved, fetched, spin >>

\* line 260: query.execute() rejects
ClExecuteFail(env) ==
    /\ pc = "clexecute"
    /\ log' = Append(log, Call("clexecute", job, query, FALSE, NoRec))
    /\ \E e \in env.errors["clexecute"] : err' = e
    /\ pc' = "catch"
    /\ UNCHANGED << inputs, sharedJob, returnItems, i, cur, job, query, res, rows,
                    completion, thrown, jobs, handles, outItem, pages, resolved, fetched, spin >>

\* catch without the continueOnFail test: every failure becomes an error record
Catch_AlwaysContinue ==
    /\ pc = "catch"
    /\ Push(<< [error |-> normalizeError(err)] >>)
    /\ completion' = "continue"
    /\ pc' = "finally"
    /\ UNCHANGED << inputs, sharedJob, i, cur, job, query, res, rows, err,
                    thrown, jobs, handles, log, pages, resolved, fetched, spin >>

\* lines 269-274: catch (err): an error record and continue, or rethrow
Catch ==
    /\ pc = "catch"
    /\ IF continueOnFail
         THEN /\ Push(<< [error |-> normalizeError(err)] >>)
              /\ completion' = "continue"
         ELSE /\ completion' = "throw"
              /\ UNCHANGED << returnItems, outItem >>
    /\ pc' = "finally"
    /\ UNCHANGED << inputs, sharedJob, i, cur, job, query, res, rows, err,
                    thrown, jobs, handles, log, pages, resolved, fetched, spin >>

\* the try statement completes as its try or catch block did, once finally is through
Complete ==
    /\ IF completion = "throw"
         THEN /\ thrown' = err
              /\ pc' = "thrown"
              /\ i' = i
         ELSE /\ thrown' = thrown
              /\ pc' = "loop"
              /\ i' = i + 1
    /\ LeaveItem

\* lines 275-279: finally with a shared connection closes nothing
FinallyKeep ==
    /\ pc = "finally"
    /\ reuseConnection
    /\ Complete
    /\ UNCHANGED << inputs, sharedJob, returnItems, jobs, handles, log, outItem, resolved, fetched, spin >>

\* the close written after the try statement instead of in finally: a rethrown
\* failure leaves without closing the job
FinallyCloseOk_NotOnThrow ==
    /\ pc = "finally"
    /\ ~reuseConnection
    /\ IF completion = "throw"
         THEN UNCHANGED << jobs, log >>
         ELSE /\ jobs' = [jobs EXCEPT ![job] = "closed"]
              /\ log' = Append(log, Call("close", job, Null, TRUE, NoRec))
    /\ Complete
    /\ UNCHANGED << inputs, sharedJob, returnItems, handles, outItem, resolved, fetched, spin >>

\* finally without the reuseConnection test: the shared job is closed with
\* the item that used it
FinallyCloseOk_SharedJobToo ==
    /\ pc = "finally"
    /\ jobs' = [jobs EXCEPT ![job] = "closed"]
    /\ log' = Append(log, Call("close", job, Null, TRUE, NoRec))
    /\ Complete
    /\ UNCHANGED << inputs, sharedJob, returnItems, handles, outItem, resolved, fetched, spin >>

\* the policy read again from the current item: finally closes the job of an
\* item whose own reuseConnection is not set
FinallyCloseOk_PolicyPerItem ==
    /\ pc = "finally"
    /\ ~Truthy(cur.additional, "reuseConnection")
    /\ jobs' = [jobs EXCEPT ![job] = "closed"]
    /\ log' = Append(log, Call("close", job, Null, TRUE, NoRec))
    /\ Complete
    /\ UNCHANGED << inputs, sharedJob, returnItems, handles, outItem, resolved, fetched, spin >>

\* job.close() without await: the iteration is left while the close is still
\* pending and the job still connected
FinallyCloseOk_NotAwaited ==
    /\ pc = "finally"
    /\ ~reuseConnection
    /\ jobs' = jobs
    /\ log' = Append(log, Call("close", job, Null, TRUE, NoRec))
    /\ Complete
    /\ UNCHANGED << inputs, sharedJob, returnItems, handles, outItem, resolved, fetched, spin >>

\* lines 275-279: finally closes the item's job
FinallyCloseOk ==
    /\ pc = "finally"
    /\ ~reuseConnection
    /\ jobs' = [jobs EXCEPT ![job] = "closed"]
    /\ log' = Append(log, Call("close", job, Null, TRUE, NoRec))
    /\ Complete
    /\ UNCHANGED << inputs, sharedJob, returnItems, handles, outItem, resolved, fetched, spin >>

\* lines 275-279: job.close() rejects inside finally: its failure replaces the
\* completion of the try statement and leaves execute
FinallyCloseFail(env) ==
    /\ pc = "finally"
    /\ ~reuseConnection
    /\ jobs' = [jobs EXCEPT ![job] = "closeFailed"]
    /\ log' = Append(log, Call("close", job, Null, FALSE, NoRec))
    /\ \E e \in env.errors["close"] : thrown' = e
    /\ pc' = "thrown"
    /\ i' = i
    /\ LeaveItem
    /\ UNCHANGED << inputs, sharedJob, returnItems, handles, outItem, resolved, fetched, spin >>

\* lines 197, 282-285: the loop is over and there is no shared job to close
Return ==
    /\ pc = "loop"
    /\ i >= Len(items)
    /\ ~(reuseConnection /\ sharedJob # Null)
    /\ pc' = "returned"
    /\ UNCHANGED << inputs, sharedJob, returnItems, i, cur, job, query, res, rows, err,
                    completion, thrown, jobs, handles, log, outItem, pages, resolved, fetched, spin >>

\* lines 282-285: the shared job is closed, execute returns [returnItems]
CloseSharedOk ==
    /\ pc = "loop"
    /\ i >= Len(items)
    /\ reuseConnection /\ sharedJob # Null
    /\ jobs' = [jobs EXCEPT ![sharedJob] = "closed"]
    /\ log' = Append(log, Call("close", sharedJob, Null, TRUE, NoRec))
    /\ pc' = "returned"
    /\ UNCHANGED << inputs, sharedJob, returnItems, i, cur, job, query, res, rows, err,
                    completion, thrown, handles, outItem, pages, resolved, fetched, spin >>

\* lines 282-284: closing the shared job rejects
CloseSharedFail(env) ==
    /\ pc = "loop"
    /\ i >= Len(items)
    /\ reuseConnection /\ sharedJob # Null
    /\ jobs' = [jobs EXCEPT ![sharedJob] = "closeFailed"]
    /\ log' = Append(log, Call("close", sharedJob, Null, FALSE, NoRec))
    /\ \E e \in env.errors["close"] : thrown' = e
    /\ pc' = "thrown"
    /\ UNCHANGED << inputs, sharedJob, returnItems, i, cur, job, query, res, rows, err,
                    completion, handles, outItem, pages, resolved, fetched, spin >>

\* -------------------------------------------------------- specifications
\* new Error raised by the session client in operation op
ClientError(op) == Merge(Error(op), Prop("op", op))

Ops == {"connect", "query", "execute", "fetchMore", "clcommand", "clexecute", "close"}

\* the parameters of an item with the defaults of the node's properties
Params(mode, additional) ==
    [mode |-> mode, fetchSize |-> DefaultFetchSize, additional |-> additional,
     sql |-> "values current date", cl |-> "DSPLIBL"]

\* Runs of SQL and CL items in both output modes, where any call may fail; the
\* items of a run agree on reuseConnection
Env ==
    [items          |-> 0..MaxItems,
     continueOnFail |-> BOOLEAN,
     credentials    |-> {[host |-> "localhost", port |-> 8085, user |-> "u", password |-> "p",
                          ignoreUnauthorized |-> TRUE, ca |-> ""]},
     reuse          |-> {NoRec, Prop("reuseConnection", TRUE)},
     reuseVaries    |-> FALSE,
     params         |-> {Params("sql", a) : a \in {NoRec, Prop("outputMode", "single"),
                                                   Prop("outputMode", "perRow"),
                                                   [useParameters |-> TRUE, parametersJson |-> "not-json"]}}
                        \cup {Params("cl", NoRec)},
     rowCounts      |-> {0, 1},
     clResults      |-> {[success |-> TRUE, data |-> "OK", error |-> JsNull]},
     errors         |-> [op \in Ops |-> {ClientError(op)}]]

StepWith(env) ==
    \/ ResolveItem(env)
    \/ GetSharedJob
    \/ ConnectOk
    \/ ConnectFail(env)
    \/ ParametersInvalid
    \/ QueryOk
    \/ QueryFail(env)
    \/ ExecuteOk(env)
    \/ ExecuteFail(env)
    \/ FetchMoreOk(env)
    \/ FetchMoreFail(env)
    \/ ShapeSql
    \/ ClCommandOk
    \/ ClCommandFail(env)
    \/ ClExecuteOk(env)
    \/ ClExecuteFail(env)
    \/ Catch
    \/ FinallyKeep
    \/ FinallyCloseOk
    \/ FinallyCloseFail(env)
    \/ Return
    \/ CloseSharedOk
    \/ CloseSharedFail(env)

Init == InitWith(Env)
Next == StepWith(Env)
Spec == Init /\ [][Next]_vars

\* Runs of one or two items whose useParameters and parametersJson take every
\* combination the parsing tells apart: texts that parse to an array, an
\* object, a number, a string, a boolean and null, a text that is no JSON, the
\* empty text and no text; CL items carry them too
ParametersJsonTexts == {"[1]", "{\"ID\":1}", "5", "\"a\"", "true", "null", "not-json", ""}
EnvParams ==
    [Env EXCEPT
       !.items  = {1, 2},
       !.params = {Params("sql", a) :
                     a \in {[useParameters |-> TRUE, parametersJson |-> t] : t \in ParametersJsonTexts}
                           \cup {[useParameters |-> FALSE, parametersJson |-> t] : t \in {"not-json", "[1]"}}
                           \cup {Prop("parametersJson", "not-json"), Prop("useParameters", TRUE)}}
                  \cup {Params("cl", [useParameters |-> TRUE, parametersJson |-> t]) :
                          t \in {"not-json", "[1]"}}]
InitParams == InitWith(EnvParams)
NextParams == StepWith(EnvParams)
ParamSpec == InitParams /\ [][NextParams]_vars

\* a statement that ran into its timeout, as the client reports it
TimeoutError == Merge(Error("Query timed out"), [op |-> "execute", sqlState |-> "57005"])

\* Runs of one or two items that take every combination of includeMetadata
\* and outputMode and every kind of queryTimeout; a CL command may succeed,
\* report success false with an error text, or carry no error at all; execute
\* may run into the timeout
EnvShape ==
    [Env EXCEPT
       !.items     = {1, 2},
       !.params    = {Params("sql", Merge(m, o)) :
                        m \in {NoRec, Prop("includeMetadata", TRUE), Prop("includeMetadata", FALSE)},
                        o \in {NoRec, Prop("outputMode", "perRow")}}
                     \cup {Params("sql", Prop("queryTimeout", t)) : t \in {0, 30}}
                     \cup {Params("sql", [useParameters |-> TRUE, parametersJson |-> "not-json"]),
                           Params("cl", NoRec)},
       !.clResults = {[success |-> TRUE, data |-> "OK", error |-> JsNull],
                      [success |-> FALSE, data |-> "", error |-> "CPF2105"],
                      [success |-> TRUE, data |-> "OK"]},
       !.errors    = [Env.errors EXCEPT !["execute"] = @ \cup {TimeoutError}]]
InitShape == InitWith(EnvShape)
NextShape == StepWith(EnvShape)
ShapeSpec == InitShape /\ [][NextShape]_vars

\* Runs of one or two items under every combination of the credential's
\* ignoreUnauthorized toggle with an empty and a non-empty ca
EnvCreds ==
    [Env EXCEPT
       !.items       = {1, 2},
       !.credentials = {[host |-> "localhost", port |-> 8085, user |-> "u", password |-> "p",
                         ignoreUnauthorized |-> ignore, ca |-> ca] :
                          ignore \in BOOLEAN, ca \in {"", "-----BEGIN CERTIFICATE-----"}}]
InitCreds == InitWith(EnvCreds)
NextCreds == StepWith(EnvCreds)
CredSpec == InitCreds /\ [][NextCreds]_vars

\* Runs of one or two items that differ in mode, statement, command and
\* fetchSize, where every item after the first carries a reuseConnection of
\* its own
EnvVary ==
    [Env EXCEPT
       !.items       = {1, 2},
       !.reuseVaries = TRUE,
       !.params      = {Params("sql", Prop("outputMode", "perRow")),
                        [Params("sql", NoRec) EXCEPT !.sql = "select * from t", !.fetchSize = 1],
                        Params("sql", [useParameters |-> TRUE, parametersJson |-> "not-json"]),
                        Params("cl", NoRec),
                        [Params("cl", NoRec) EXCEPT !.cl = "CLRLIB QTEMP"]}]
InitVary == InitWith(EnvVary)
NextVary == StepWith(EnvVary)
VarySpec == InitVary /\ [][NextVary]_vars

\* Runs of one or two items whose pages hold up to two rows and whose mode is
\* 'sql', 'cl' or a value that is neither
EnvFlow ==
    [Env EXCEPT
       !.items     = {1, 2},
       !.rowCounts = {0, 1, 2},
       !.params    = {Params("sql", NoRec),
                      Params("sql", Prop("outputMode", "perRow")),
                      Params("sql", [useParameters |-> TRUE, parametersJson |-> "not-json"]),
                      Params("cl", NoRec),
                      Params("SQL", NoRec),
                      Params("", NoRec)}]
InitFlow == InitWith(EnvFlow)
NextFlow == StepWith(EnvFlow)
FlowSpec == InitFlow /\ [][NextFlow]_vars

\* what a call may raise: an Error with a message, an Error without one, an
\* Error with sqlcode and sqlState, an Error with code and sqlcode, an object
\* that is no Error and has no message, a string, and null
RaisedValues ==
    {ClientError("execute"),
     [class |-> "Error", name |-> "TypeError", message |-> "", stack |-> "stack"],
     Merge(Error("SQL0204"), [sqlcode |-> -204, sqlState |-> "42704"]),
     Merge(Error("connection lost"), [code |-> 104, sqlcode |-> -30081]),
     [class |-> "Object", sqlState |-> "08001"],
     [class |-> "string", value |-> "boom"],
     [class |-> "null"]}

\* Runs of one or two items in which execute may raise any of these
EnvErrors ==
    [Env EXCEPT
       !.items  = {1, 2},
       !.errors = [Env.errors EXCEPT !["execute"] = RaisedValues]]
InitErrors == InitWith(EnvErrors)
NextErrors == StepWith(EnvErrors)
ErrSpec == InitErrors /\ [][NextErrors]_vars

\* Runs of one or two items against a client whose statements may never be
\* done. Every await of execute is settled by the client and the event loop
\* resumes execute, hence the weak fairness of its steps.
EnvLive == [Env EXCEPT !.items = {1, 2}]
InitLive == InitWith(EnvLive)
NextLive == StepWith(EnvLive) \/ FetchMoreEndless
LiveSpec == InitLive /\ [][NextLive]_vars /\ WF_vars(NextLive)

\* ------------------------------------------------------------- histories
LogIdx == 1..Len(log)
\* the positions in the log of the calls of op
Calls(op) == { p \in LogIdx : log[p].op = op }
\* the positions in the log of the calls of op on job j
CallsOn(op, j) == { p \in Calls(op) : log[p].job = j }
\* the operations of an item's SQL or CL flow
FlowOps == {"parse", "query", "execute", "fetchMore", "clcommand", "clexecute"}
\* the positions of the calls that failed
Failed == { p \in LogIdx : ~log[p].ok }
\* execute is over
Terminal == pc \in {"returned", "thrown"}
\* the indices in returnItems of the records pushed by item k
RecordsOf(k) == { x \in 1..Len(returnItems) : outItem[x] = k }
IsErrorRecord(r) == DOMAIN r = {"error"}

\* ------------------------------------------------------------------ C1
\* C1 (as claimed): with reuseConnection, when a failure of query, execute or
\* fetchMore is not tolerated and leaves execute, no job is left connected.
C1_SharedJobClosedWhenFailureLeaves ==
    ( /\ pc = "thrown"
      /\ reuseConnection
      /\ ~continueOnFail
      /\ Has(thrown, "op")
      /\ thrown.op \in {"query", "execute", "fetchMore"} )
    => \A j \in 1..Len(jobs) : jobs[j] # "connected"

\* ------------------------------------------------------------------ C2
\* C2: without reuseConnection, close is called exactly once on the job
\* connected for an item, whichever way the item's work ends: no close while
\* the item still works on the job, one close as soon as the iteration is left
\* (before the next connect, before execute returns or throws).
C2_ItemJobClosedOnce ==
    ~reuseConnection =>
      \A p \in Calls("connect") :
        log[p].ok =>
          LET j      == log[p].job
              closes == CallsOn("close", j)
          IN  IF job = j
                THEN closes = {}
                ELSE /\ Cardinality(closes) = 1
                     /\ \A q \in closes : q > p
                     /\ \A r \in Calls("connect") : r > p => \E q \in closes : q < r

\* C2 witness: a failure of execute left an intolerant run and the item's job
\* had been closed
C2_Witness ==
    /\ ~reuseConnection
    /\ pc = "thrown"
    /\ Has(thrown, "op") /\ thrown.op = "execute"
    /\ \E q \in Calls("close") : log[q].ok /\ jobs[log[q].job] = "closed"

\* ------------------------------------------------------------------ C3
\* C3: when every one of N >= 1 items was processed, a run with reuseConnection
\* has connected one job, made every call on it and closed it once, as its last
\* call; a run without has connected N jobs and closed N.
C3_SessionsPerRun ==
    (Terminal /\ i >= Len(items) /\ Len(items) >= 1) =>
      IF reuseConnection
        THEN /\ Cardinality(Calls("connect")) = 1
             /\ Cardinality(Calls("close")) = 1
             /\ \A p \in LogIdx : log[p].op # "parse" => log[p].job = sharedJob
             /\ log[Len(log)].op = "close"
        ELSE /\ Cardinality(Calls("connect")) = Len(items)
             /\ Cardinality(Calls("close")) = Len(items)
             /\ Cardinality({ log[p].job : p \in Calls("connect") }) = Len(items)

\* C3 witness: a run with reuseConnection returned after more than one item,
\* one of which failed and was tolerated
C3_Witness ==
    /\ pc = "returned"
    /\ reuseConnection
    /\ Len(items) >= 2
    /\ \E x \in 1..Len(returnItems) : IsErrorRecord(returnItems[x]) /\ outItem[x] = 0

\* ------------------------------------------------------------------ C4
\* C4 (as claimed): a run with continueOnFail never ends by throwing.
C4_TolerantRunNeverThrows ==
    continueOnFail => pc # "thrown"

\* ------------------------------------------------------------------ C5
\* C5: in a run with continueOnFail, an item one of whose flow operations
\* (parameter parsing, query, execute, fetchMore, clcommand, CL execute) failed
\* has pushed nothing until catch runs and from then on exactly one record,
\* {error: normalizeError(the failure)}; the run goes on to the next item and is
\* not ended by that failure (it ends early only if the close in finally rejects).
C5_ToleratedFailureOneErrorRecord ==
    continueOnFail =>
      \A p \in Failed :
        log[p].op \in FlowOps =>
          LET k == log[p].item
          IN  /\ IF k = i /\ pc = "catch"
                   THEN RecordsOf(k) = {}
                   ELSE \E x \in 1..Len(returnItems) :
                          /\ RecordsOf(k) = {x}
                          /\ IsErrorRecord(returnItems[x])
                          /\ log[p].op # "parse" =>
                               returnItems[x] = [error |-> normalizeError(ClientError(log[p].op))]
              /\ \/ k < i
                 \/ k = i /\ pc \in {"catch", "finally"}
                 \/ k = i /\ pc = "thrown" /\ Has(thrown, "op") /\ thrown.op = "close"

\* C5 witness: in perRow mode fetchMore failed after the first page had brought
\* a row; the failure was tolerated and the item's only record is the error
C5_Witness ==
    /\ continueOnFail
    /\ pc = "finally"
    /\ completion = "continue"
    /\ PerRow(cur.additional)
    /\ rows # << >>
    /\ log[Len(log)].op = "fetchMore" /\ ~log[Len(log)].ok
    /\ \E x \in 1..Len(returnItems) : RecordsOf(i) = {x} /\ IsErrorRecord(returnItems[x])

\* ------------------------------------------------------------------ C6
\* C6: in a run without continueOnFail, once a call of item k has failed nothing
\* but the close of item k's job is called any more, the loop index stays k, and
\* the run is on its way out (catch, finally) or has thrown: it never returns.
C6_IntolerantRunAborts ==
    ~continueOnFail =>
      \A p \in Failed :
        /\ \A q \in LogIdx : q > p => (log[q].op = "close" /\ log[q].item = log[p].item)
        /\ i = log[p].item
        /\ pc \in {"catch", "finally", "thrown"}

\* C6 witness: item 0 of two failed in fetchMore and the run has thrown
C6_Witness ==
    /\ ~continueOnFail
    /\ pc = "thrown"
    /\ Len(items) = 2
    /\ i = 0
    /\ Has(thrown, "op") /\ thrown.op = "fetchMore"

\* ------------------------------------------------------------------ C7
\* C7 (as claimed): the value with which an intolerant run throws is the raw
\* failure of the query, execute or fetchMore call that failed.
C7_RawFailureLeaves ==
    (pc = "thrown" /\ ~continueOnFail) =>
      \A p \in Failed :
        log[p].op \in {"query", "execute", "fetchMore"} => thrown = ClientError(log[p].op)

\* ------------------------------------------------------------------ C8
\* the fetchMore calls made on the current statement's handle
FetchCalls == { p \in Calls("fetchMore") : log[p].handle = query }
\* the pages received for the current statement that were not the last one
NotDonePages == { k \in 1..Len(pages) : ~pages[k].is_done }

\* C8: for the statement being executed, no page was received after a page with
\* is_done; fetchMore was called once for every page received with is_done false
\* (the call for the last such page is still to come while the loop is at its
\* test); a first page with is_done means no fetchMore call; and the output is
\* shaped only after a page with is_done.
C8_FetchesUntilDone ==
    (query # Null /\ cur.mode = "sql") =>
      /\ \A k \in 1..Len(pages) : pages[k].is_done => k = Len(pages)
      /\ Cardinality(FetchCalls) =
           IF pc = "paging" /\ ~res.is_done
             THEN Cardinality(NotDonePages) - 1
             ELSE Cardinality(NotDonePages)
      /\ (pages # << >> /\ pages[1].is_done) => FetchCalls = {}
      /\ (pc = "finally" /\ completion = "normal") => (pages # << >> /\ pages[Len(pages)].is_done)

\* C8 witness: a statement that needed a fetchMore call has been shaped
C8_Witness ==
    /\ pc = "finally"
    /\ completion = "normal"
    /\ cur.mode = "sql"
    /\ Len(pages) >= 2
    /\ Cardinality(FetchCalls) = Len(pages) - 1

\* ----------------------------------------------------------------- C10
\* C10: when a run of SQL items, none of them in perRow mode, returns without
\* any call having failed, returnItems holds one record per item, in item
\* order, each with the item's rows.
C10_SingleModeOneRecordPerItem ==
    ( /\ pc = "returned"
      /\ Failed = {}
      /\ \A k \in 1..Len(resolved) :
           resolved[k].mode = "sql" /\ ~resolved[k].perRow )
    => /\ Len(returnItems) = Len(items)
       /\ \A k \in 1..Len(items) : outItem[k] = k - 1 /\ Has(returnItems[k], "rows")

\* C10 witness: such a run of two items, one with an empty result set
C10_Witness ==
    /\ pc = "returned"
    /\ Failed = {}
    /\ Len(items) = 2
    /\ \A k \in 1..Len(resolved) :
         resolved[k].mode = "sql" /\ ~resolved[k].perRow
    /\ Len(returnItems) = 2
    /\ returnItems[1].rows = << >>
    /\ returnItems[2].rows # << >>

\* ------------------------------------------------------------------ C9
\* C9: once a page with is_done has arrived the statement's output is pushed;
\* while the last page is not done the loop is left by no step but a failing
\* fetchMore and a further fetchMore is always possible, however many there
\* were; so a run either ends or stays for ever in the loop of a statement that
\* is never done.
C9_PagingEndsExactlyWhenDone ==
    /\ <>Terminal \/ <>[](pc = "paging" /\ ~res.is_done)
    /\ (pc = "paging" /\ res.is_done) ~> (pc = "finally" /\ completion = "normal")
    /\ [][ (pc = "paging" /\ ~res.is_done) =>
             \/ pc' = "paging"
             \/ pc' = "catch" /\ log'[Len(log')].op = "fetchMore" /\ ~log'[Len(log')].ok ]_vars
    /\ []( (pc = "paging" /\ ~res.is_done) =>
             ENABLED (FetchMoreOk(EnvLive) \/ FetchMoreEndless) )

\* C9 witness: a statement was not done after more than MaxPages fetchMore
\* calls, and the loop is still fetching
C9_Witness ==
    /\ pc = "paging"
    /\ ~res.is_done
    /\ Len(pages) = MaxPages
    /\ spin = 1

\* ----------------------------------------------------------------- C11
\* the rows received by the first n statements that were finished
RECURSIVE SumFetched(_)
SumFetched(n) == IF n = 0 THEN 0 ELSE fetched[n].rows + SumFetched(n - 1)

\* C11: when a run of SQL items, all of them in perRow mode, returns without
\* any call having failed, every item has pushed as many records as its
\* statement received rows over all its pages (none for an empty result set),
\* so returnItems holds as many records as rows were received in the run.
C11_PerRowOneRecordPerRow ==
    ( /\ pc = "returned"
      /\ Failed = {}
      /\ \A k \in 1..Len(resolved) :
           resolved[k].mode = "sql" /\ resolved[k].perRow )
    => /\ Len(fetched) = Len(items)
       /\ \A f \in 1..Len(fetched) :
            /\ fetched[f].item = f - 1
            /\ Cardinality(RecordsOf(f - 1)) = fetched[f].rows
       /\ Len(returnItems) = SumFetched(Len(fetched))
       /\ \A x \in 1..Len(returnItems) : Has(returnItems[x], "row")

\* C11 witness: such a run of two items; the first received one row on each of
\* two pages, the second an empty result set
C11_Witness ==
    /\ pc = "returned"
    /\ Failed = {}
    /\ Len(items) = 2
    /\ \A k \in 1..Len(resolved) :
         resolved[k].mode = "sql" /\ resolved[k].perRow
    /\ Cardinality(Calls("fetchMore")) >= 1
    /\ fetched[1].rows = 2
    /\ fetched[2].rows = 0
    /\ Len(returnItems) = 2

\* ----------------------------------------------------------------- C12
\* the jobs whose session is open: connected, and not closed by a close that
\* resolved
OpenJobs == { j \in 1..Len(jobs) : jobs[j] \in {"connected", "closeFailed"} }

\* C12: at most one session is open at any moment and the calls of the items
\* follow one another in item order; without reuseConnection the last call
\* before the first call of a later item is the close of the earlier item's
\* job, exactly one session (the item's job) is open from the item's connect
\* to its close, and none is open before an item connects, between two items
\* or when the run has returned.
C12_OneItemOneSessionAtATime ==
    /\ Cardinality(OpenJobs) <= 1
    /\ \A p \in LogIdx : p < Len(log) => log[p].item <= log[p + 1].item
    /\ \A p \in LogIdx : log[p].item <= i
    /\ ~reuseConnection =>
         /\ \A p \in LogIdx :
              (p < Len(log) /\ log[p].item < log[p + 1].item) => log[p].op = "close"
         /\ pc \in {"try", "execute", "paging", "clexecute", "catch", "finally"}
              => OpenJobs = {job}
         /\ pc \in {"loop", "getJob", "returned"} => OpenJobs = {}

\* C12 witness: without reuseConnection the second item works on its own job
\* after the first item's job was closed
C12_Witness ==
    /\ ~reuseConnection
    /\ i = 1
    /\ pc = "paging"
    /\ job = 2
    /\ jobs = << "closed", "connected" >>
    /\ \E c \in Calls("close") : log[c].item = 0 /\ log[c].job = 1

\* ----------------------------------------------------------------- C13
\* the current item is an SQL item with useParameters true and a parametersJson
\* that is no JSON, or is the JSON of a number, a string, a boolean or null
BadParametersItem ==
    /\ cur.mode = "sql"
    /\ Has(cur.additional, "useParameters") /\ cur.additional.useParameters = TRUE
    /\ Has(cur.additional, "parametersJson")
    /\ cur.additional.parametersJson \in {"not-json", "5", "\"a\"", "true", "null"}
\* the message contains 'Invalid Parameters JSON'
HasInvalidParametersMarker(message) ==
    message \in {"Invalid Parameters JSON: Unexpected token in JSON",
                 "Invalid Parameters JSON: Parameters JSON must be an array or object"}
\* the statements and commands submitted for the current item, and the calls
\* on their handles
ItemCalls ==
    { p \in LogIdx : /\ log[p].item = i
                     /\ log[p].op \in {"query", "execute", "fetchMore", "clcommand", "clexecute"} }

\* C13: an SQL item with useParameters true whose parametersJson is no JSON or
\* no array or object fails before anything is submitted (no query, execute or
\* fetchMore call is made for it) with a failure whose message carries the
\* marker. With continueOnFail the item has pushed exactly one record, an
\* error record with that message, and the loop goes on with the next item;
\* without continueOnFail the item has pushed nothing and execute throws. (The
\* one step that ends a tolerant run at that item is job.close() rejecting in
\* finally, the divergence of C4.)
C13_BadParametersFailBeforeSubmit ==
    /\ [](BadParametersItem =>
            /\ pc \in {"getJob", "try", "catch", "finally"}
            /\ ItemCalls = {}
            /\ pc = "catch" => HasInvalidParametersMarker(err.message)
            /\ pc = "finally" =>
                 /\ completion = (IF continueOnFail THEN "continue" ELSE "throw")
                 /\ HasInvalidParametersMarker(err.message)
                 /\ IF continueOnFail
                      THEN \E x \in 1..Len(returnItems) :
                             /\ RecordsOf(i) = {x}
                             /\ IsErrorRecord(returnItems[x])
                             /\ returnItems[x].error.message = err.message
                      ELSE RecordsOf(i) = {})
    /\ [][ (BadParametersItem /\ pc = "finally") =>
             IF continueOnFail
               THEN \/ pc' = "loop" /\ i' = i + 1 /\ returnItems' = returnItems
                    \/ pc' = "thrown" /\ log'[Len(log')].op = "close" /\ ~log'[Len(log')].ok
               ELSE pc' = "thrown" ]_vars

\* C13 witness: a tolerant run has pushed the error record of a second item
\* whose parametersJson is the JSON of a number
C13_Witness ==
    /\ BadParametersItem
    /\ cur.additional.parametersJson = "5"
    /\ continueOnFail
    /\ i = 1
    /\ pc = "finally"
    /\ completion = "continue"
    /\ \E x \in RecordsOf(1) :
         returnItems[x].error.message
           = "Invalid Parameters JSON: Parameters JSON must be an array or object"

\* ----------------------------------------------------------------- C14
\* the positions of the job.query calls made for the current item
ItemQueries == { p \in Calls("query") : log[p].item = i }

\* C14: for an SQL item with useParameters true whose parametersJson is the
\* JSON of an array or of an object, job.query is called once, and its options
\* carry parameters equal to the value the text encodes: the array with the
\* same elements in the same order, the object with the same names and values.
C14_ParametersAreTheParsedValue ==
    ( /\ cur.mode = "sql"
      /\ Has(cur.additional, "useParameters") /\ cur.additional.useParameters = TRUE
      /\ Has(cur.additional, "parametersJson")
      /\ cur.additional.parametersJson \in {"[1]", "{\"ID\":1}"} )
    => /\ pc \in {"execute", "paging", "catch", "finally"} => Cardinality(ItemQueries) = 1
       /\ \A q \in ItemQueries :
            /\ log[q].arg.sql = cur.sql
            /\ Has(log[q].arg.opts, "parameters")
            /\ LET parameters == log[q].arg.opts.parameters
               IN  IF cur.additional.parametersJson = "[1]"
                     THEN DOMAIN parameters = {1} /\ parameters[1] = 1
                     ELSE DOMAIN parameters = {"ID"} /\ parameters.ID = 1

\* C14 witness: the statement of an item with parametersJson {"ID":1} was
\* submitted and is being paged
C14_Witness ==
    /\ cur.mode = "sql"
    /\ Has(cur.additional, "useParameters") /\ cur.additional.useParameters = TRUE
    /\ Has(cur.additional, "parametersJson")
    /\ cur.additional.parametersJson = "{\"ID\":1}"
    /\ pc = "paging"
    /\ \E q \in ItemQueries : log[q].ok /\ log[q].arg.opts.parameters = [ID |-> 1]

\* ----------------------------------------------------------------- C15
\* the positions of the JSON.parse calls made for item k
ParsesOf(k) == { p \in Calls("parse") : log[p].item = k }
\* the current item asks for no parameters: useParameters is not true, or
\* there is no parametersJson text, or the item is a CL item
NoParametersItem ==
    \/ cur.mode # "sql"
    \/ ~(Has(cur.additional, "useParameters") /\ cur.additional.useParameters = TRUE)
    \/ ~(Has(cur.additional, "parametersJson") /\ cur.additional.parametersJson # "")

\* C15: JSON.parse is called at most once for an item. For an item that asks
\* for no parameters it is not called at all, whatever parametersJson holds:
\* the options of the item's job.query carry no parameters, and when the item
\* fails it is a call on the job or on the statement that failed.
C15_ParsedOnceAndOnlyOnRequest ==
    /\ \A k \in 0..i : Cardinality(ParsesOf(k)) <= 1
    /\ (cur # NoCur /\ NoParametersItem) =>
         /\ ParsesOf(i) = {}
         /\ \A q \in ItemQueries : ~Has(log[q].arg.opts, "parameters")
         /\ pc = "catch" =>
              /\ ~HasInvalidParametersMarker(err.message)
              /\ ~log[Len(log)].ok
              /\ log[Len(log)].item = i
              /\ log[Len(log)].op \in {"query", "execute", "fetchMore", "clcommand", "clexecute"}
         /\ (pc = "finally" /\ Failed = {}) => completion = "normal"

\* C15 witness: an SQL item with useParameters false and a parametersJson
\* that is no JSON has pushed its rows
C15_Witness ==
    /\ cur.mode = "sql"
    /\ cur.additional = [useParameters |-> FALSE, parametersJson |-> "not-json"]
    /\ pc = "finally"
    /\ completion = "normal"
    /\ ParsesOf(i) = {}
    /\ \E q \in ItemQueries : log[q].ok /\ log[q].arg.opts = NoRec
    /\ RecordsOf(i) # {}

\* ----------------------------------------------------------------- C16
\* the current item's SQL statement has finished and its output was pushed
SqlItemShaped == cur.mode = "sql" /\ pc = "finally" /\ completion = "normal"
\* includeMetadata is true or absent
MetadataWanted ==
    ~Has(cur.additional, "includeMetadata") \/ cur.additional.includeMetadata = TRUE

\* C16: the record an SQL item pushes in aggregate mode has the keys rows,
\* metadata and updateCount when includeMetadata is true or absent and the key
\* rows alone when it is false; the records it pushes in perRow mode have the
\* keys row and metadata, respectively row alone, never updateCount, and all
\* carry the same metadata.
C16_KeysFixedByIncludeMetadata ==
    SqlItemShaped =>
      IF Has(cur.additional, "outputMode") /\ cur.additional.outputMode = "perRow"
        THEN /\ \A x \in RecordsOf(i) :
                  DOMAIN returnItems[x]
                    = (IF MetadataWanted THEN {"row", "metadata"} ELSE {"row"})
             /\ MetadataWanted =>
                  \A x, y \in RecordsOf(i) : returnItems[x].metadata = returnItems[y].metadata
        ELSE /\ Cardinality(RecordsOf(i)) = 1
             /\ \A x \in RecordsOf(i) :
                  DOMAIN returnItems[x]
                    = (IF MetadataWanted THEN {"rows", "metadata", "updateCount"} ELSE {"rows"})

\* C16 witness: a perRow item without includeMetadata has pushed two row
\* records that came on two pages
C16_Witness ==
    /\ SqlItemShaped
    /\ cur.additional = Prop("outputMode", "perRow")
    /\ Len(pages) = 2
    /\ Cardinality(RecordsOf(i)) = 2
    /\ \A x \in RecordsOf(i) : Has(returnItems[x], "metadata")

\* ----------------------------------------------------------------- C17
\* the positions of the calls of operation op made for the current item
ItemCallsOf(op) == { p \in Calls(op) : log[p].item = i }

\* C17: a CL item whose clcommand and execute did not fail has made exactly
\* one clcommand call and one execute call on the command's handle, no query,
\* no fetchMore and no parse, and has pushed exactly one record with the keys
\* success, data and message: success and data are those of the result,
\* message is the result's error, or null when the result has none. A result
\* with success false is pushed the same way; the item completes normally.
C17_ClOneSubmitOneExecuteOneRecord ==
    /\ (cur # NoCur /\ cur.mode # "sql") =>
         /\ \A op \in {"parse", "query", "execute", "fetchMore"} : ItemCallsOf(op) = {}
         /\ Cardinality(ItemCallsOf("clcommand")) <= 1
         /\ Cardinality(ItemCallsOf("clexecute")) <= 1
         /\ (pc = "finally" /\ \A p \in ItemCallsOf("clcommand") \cup ItemCallsOf("clexecute") : log[p].ok)
              => completion = "normal"
    /\ (cur.mode # "sql" /\ pc = "finally" /\ completion = "normal") =>
         /\ Cardinality(ItemCallsOf("clcommand")) = 1
         /\ Cardinality(ItemCallsOf("clexecute")) = 1
         /\ \A p \in ItemCallsOf("clcommand"), q \in ItemCallsOf("clexecute") :
              /\ p < q
              /\ log[p].arg = cur.cl
              /\ log[q].handle = log[p].handle
         /\ \E x \in 1..Len(returnItems) :
              /\ RecordsOf(i) = {x}
              /\ DOMAIN returnItems[x] = {"success", "data", "message"}
              /\ returnItems[x].success = res.success
              /\ returnItems[x].data = res.data
              /\ returnItems[x].message
                   = (IF Has(res, "error") /\ res.error # JsNull THEN res.error ELSE JsNull)

\* C17 witness: a CL item whose command reported success false with an error
\* text has pushed its record
C17_Witness ==
    /\ cur.mode = "cl"
    /\ pc = "finally"
    /\ completion = "normal"
    /\ res.success = FALSE
    /\ \E x \in RecordsOf(i) :
         returnItems[x] = [success |-> FALSE, data |-> "", message |-> "CPF2105"]

\* ----------------------------------------------------------------- C20
\* C20: the options of an item's job.query carry timeout exactly when the
\* item's queryTimeout is greater than 0, and then timeout is queryTimeout. A
\* statement that runs into the timeout is handled as every failed call is:
\* with continueOnFail the item has pushed one error record with the failure's
\* message and the loop goes on, without it the item has pushed nothing and
\* execute throws that failure. (job.close() rejecting in finally replaces the
\* outcome in both cases, the divergences of C4 and C7.)
C20_TimeoutForwardedWhenPositive ==
    /\ [](cur # NoCur =>
            /\ pc \in {"execute", "paging"} => ItemQueries # {}
            /\ \A q \in ItemQueries :
                 LET opts == log[q].arg.opts
                 IN  /\ Has(opts, "timeout")
                          <=> (Has(cur.additional, "queryTimeout") /\ cur.additional.queryTimeout > 0)
                     /\ Has(opts, "timeout") => opts.timeout = cur.additional.queryTimeout)
    /\ []((pc = "finally" /\ err = TimeoutError) =>
            IF continueOnFail
              THEN /\ completion = "continue"
                   /\ \E x \in 1..Len(returnItems) :
                        /\ RecordsOf(i) = {x}
                        /\ IsErrorRecord(returnItems[x])
                        /\ returnItems[x].error.message = "Query timed out"
              ELSE /\ completion = "throw"
                   /\ RecordsOf(i) = {})
    /\ [][ (pc = "finally" /\ err = TimeoutError) =>
             \/ continueOnFail /\ pc' = "loop" /\ i' = i + 1 /\ returnItems' = returnItems
             \/ ~continueOnFail /\ pc' = "thrown" /\ thrown' = TimeoutError
             \/ pc' = "thrown" /\ log'[Len(log')].op = "close" /\ ~log'[Len(log')].ok ]_vars

\* C20 witness: a statement submitted with timeout 30 ran into the timeout
\* and a tolerant run has pushed its error record
C20_Witness ==
    /\ pc = "finally"
    /\ err = TimeoutError
    /\ continueOnFail
    /\ cur.additional = Prop("queryTimeout", 30)
    /\ \E q \in ItemQueries : log[q].arg.opts = Prop("timeout", 30)
    /\ \E x \in RecordsOf(i) : IsErrorRecord(returnItems[x])

\* ----------------------------------------------------------------- C18
\* C18 (as claimed): every connect receives rejectUnauthorized equal to the
\* negation of the credential's ignoreUnauthorized, except that with a
\* non-empty ca it receives rejectUnauthorized true and that ca, whatever
\* ignoreUnauthorized is.
C18_CaEnforcesVerification ==
    \A p \in Calls("connect") :
      LET options == log[p].arg
      IN  IF credentials.ca # ""
            THEN /\ options.rejectUnauthorized = TRUE
                 /\ Has(options, "ca") /\ options.ca = credentials.ca
            ELSE options.rejectUnauthorized = ~credentials.ignoreUnauthorized

\* ----------------------------------------------------------------- C19
\* the positions of the calls of operation op made for item k
CallsFor(op, k) == { p \in Calls(op) : log[p].item = k }

\* C19: reuseConnection is the first item's option, and whatever the later
\* items carry, the sessions follow it: with it one connect for the run and no
\* close before the loop is over, without it one connect and one close for
\* every item that was worked through. The calls made for an item carry the
\* item's own statement, command and fetchSize, and follow the item's mode.
C19_PolicyFromFirstItemOnly ==
    /\ (i = 0 /\ cur # NoCur) => (reuseConnection <=> Truthy(cur.additional, "reuseConnection"))
    /\ IF reuseConnection
         THEN /\ Cardinality(Calls("connect")) <= 1
              /\ \A k \in 1..Len(items) : k <= i => CallsFor("connect", k) = {}
              /\ \A c \in Calls("close") : log[c].item = Len(items) /\ i = Len(items)
         ELSE \A k \in 0..(i - 1) :
                /\ Cardinality(CallsFor("connect", k)) = 1
                /\ Cardinality(CallsFor("close", k)) = 1
    /\ cur # NoCur =>
         /\ \A p \in CallsFor("query", i) : cur.mode = "sql" /\ log[p].arg.sql = cur.sql
         /\ \A p \in CallsFor("execute", i) \cup CallsFor("fetchMore", i) :
              cur.mode = "sql" /\ log[p].arg = cur.fetchSize
         /\ \A p \in CallsFor("clcommand", i) : cur.mode # "sql" /\ log[p].arg = cur.cl

\* C19 witness: in a run with reuseConnection the second item, which carries
\* no reuseConnection and another statement and fetchSize than the first, is
\* executed on the shared job
C19_Witness ==
    /\ reuseConnection
    /\ i = 1
    /\ cur.mode = "sql"
    /\ ~Truthy(cur.additional, "reuseConnection")
    /\ pc = "paging"
    /\ job = sharedJob
    /\ Cardinality(Calls("connect")) = 1
    /\ \E p \in CallsFor("execute", 0), q \in CallsFor("execute", 1) :
         log[p].arg # log[q].arg /\ log[q].arg = cur.fetchSize
    /\ \E p \in CallsFor("query", 0), q \in CallsFor("query", 1) :
         log[p].arg.sql # log[q].arg.sql /\ log[q].arg.sql = cur.sql

\* ----------------------------------------------------------------- C28
\* C28: a run without items connects no job, closes none, submits, executes
\* and fetches nothing, cannot throw, and returns an empty returnItems, with
\* and without reuseConnection.
C28_NoItemsNoSession ==
    Len(items) = 0 =>
      /\ log = << >>
      /\ jobs = << >>
      /\ sharedJob = Null
      /\ handles = 0
      /\ returnItems = << >>
      /\ pc \in {"loop", "returned"}
      /\ pc = "loop" => ENABLED Return

\* C28 witness: a run with reuseConnection and no items has returned
C28_Witness ==
    /\ Len(items) = 0
    /\ reuseConnection
    /\ pc = "returned"
    /\ returnItems = << >>

\* ----------------------------------------------------------------- C23
\* C23: returnItems is ordered by item: a record pushed by an earlier item
\* stands before every record pushed by a later item, none is pushed by an
\* item that is not yet worked on, and no step changes or removes a record
\* that is there: a step leaves returnItems alone or appends to it.
C23_OutputOrderedByItemAppendOnly ==
    /\ [](/\ Len(outItem) = Len(returnItems)
          /\ \A x \in 1..Len(outItem) :
               /\ outItem[x] <= i
               /\ x < Len(outItem) => outItem[x] <= outItem[x + 1])
    /\ [][ /\ Len(returnItems') >= Len(returnItems)
           /\ \A x \in 1..Len(returnItems) :
                returnItems'[x] = returnItems[x] /\ outItem'[x] = outItem[x] ]_vars

\* C23 witness: a tolerant run has returned the error record of its first
\* item followed by the rows of its second
C23_Witness ==
    /\ pc = "returned"
    /\ outItem = << 0, 1 >>
    /\ IsErrorRecord(returnItems[1])
    /\ Has(returnItems[2], "rows")

\* ----------------------------------------------------------------- C24
\* the call at position p follows a call of the same item that resolved, whose
\* operation is among ops
Follows(p, ops) ==
    /\ p > 1
    /\ log[p - 1].item = log[p].item
    /\ log[p - 1].op \in ops
    /\ log[p - 1].ok
\* the call at position p is the first of its item
FirstOfItem(p) == p = 1 \/ log[p - 1].item < log[p].item

\* C24: the calls of an SQL item come in the order connect (or, with
\* reuseConnection, the shared job that is there), query, execute, any number
\* of fetchMore, close: a query follows the connect or the parse of its item
\* or, on a shared job, opens the item; an execute follows the query of its
\* item, a fetchMore the execute or a fetchMore of its item, each on the
\* handle and the job of the call before; the close of an item's job follows
\* a call of that item. An item makes at most one query, exactly one when it
\* was worked through without its parameters being rejected, and no two
\* queries return the same handle.
C24_SqlItemCallOrder ==
    /\ \A p \in LogIdx :
         LET call == log[p]
         IN  /\ call.op \in {"parse", "query"} =>
                  \/ Follows(p, IF call.op = "query" THEN {"connect", "parse"} ELSE {"connect"})
                  \/ reuseConnection /\ p > 1 /\ FirstOfItem(p)
             /\ call.op = "query" => call.job = (IF reuseConnection THEN 1 ELSE call.item + 1)
             /\ call.op = "execute" =>
                  /\ Follows(p, {"query"})
                  /\ call.handle = log[p - 1].handle /\ call.job = log[p - 1].job
             /\ call.op = "fetchMore" =>
                  /\ Follows(p, {"execute", "fetchMore"})
                  /\ call.handle = log[p - 1].handle /\ call.job = log[p - 1].job
             /\ (call.op = "close" /\ ~reuseConnection) =>
                  /\ p > 1
                  /\ log[p - 1].item = call.item
                  /\ log[p - 1].op \in FlowOps
                  /\ call.job = call.item + 1
    /\ \A k \in 0..i : Cardinality(CallsFor("query", k)) <= 1
    /\ \A k \in 0..(i - 1) :
         resolved[k + 1].mode = "sql" =>
           Cardinality(CallsFor("query", k))
             + Cardinality({ p \in CallsFor("parse", k) : ~log[p].ok }) = 1
    /\ \A p, q \in Calls("query") :
         (p # q /\ log[p].ok /\ log[q].ok) => log[p].handle # log[q].handle

\* C24 witness: on a shared job two SQL items have each submitted a statement
\* and the second is fetching more on its own handle
C24_Witness ==
    /\ reuseConnection
    /\ i = 1
    /\ pc = "paging"
    /\ Len(pages) = 2
    /\ \E p \in CallsFor("query", 0), q \in CallsFor("query", 1) :
         /\ log[p].handle = 1 /\ log[q].handle = 2
         /\ log[p].job = log[q].job
    /\ log[Len(log)].op = "fetchMore" /\ log[Len(log)].handle = 2

\* ----------------------------------------------------------------- C25
\* C25: every query, execute, fetchMore, clcommand and CL execute is made on
\* a job whose connect resolved before and on which close was not called
\* before; close is called at most once on a job, only on a job whose connect
\* resolved, and nothing is called on the job after it.
C25_NoUseAfterCloseNoDoubleClose ==
    LET connected == { p \in Calls("connect") : log[p].ok }
        closes    == Calls("close")
    IN  /\ \A p \in LogIdx :
             log[p].op \in {"query", "execute", "fetchMore", "clcommand", "clexecute"} =>
               /\ \E c \in connected : c < p /\ log[c].job = log[p].job
               /\ \A c \in closes : log[c].job = log[p].job => p < c
        /\ \A c \in closes :
             /\ \E p \in connected : p < c /\ log[p].job = log[c].job
             /\ \A d \in closes : log[d].job = log[c].job => d = c
        /\ \A j \in 1..Len(jobs) :
             jobs[j] = "connectFailed" => \A p \in LogIdx : log[p].job = j => log[p].op = "connect"

\* C25 witness: a tolerant run with reuseConnection has returned after a
\* failed first item and a second item on the same job, closed once at the end
C25_Witness ==
    /\ pc = "returned"
    /\ reuseConnection
    /\ Len(items) = 2
    /\ \E p \in Failed : log[p].item = 0 /\ log[p].op = "execute"
    /\ CallsFor("execute", 1) # {}
    /\ Cardinality(Calls("close")) = 1
    /\ log[Len(log)].op = "close"

\* ----------------------------------------------------------------- C26
\* C26: the metadata and the updateCount in the records an SQL item pushed are
\* those of the last page the statement received, which is the one page with
\* is_done, whatever the pages before it carried.
C26_MetadataOfLastPage ==
    SqlItemShaped =>
      LET last == pages[Len(pages)]
      IN  /\ last.is_done
          /\ \A n \in 1..(Len(pages) - 1) : ~pages[n].is_done
          /\ \A x \in RecordsOf(i) :
               /\ MetadataWanted => Has(returnItems[x], "metadata")
               /\ Has(returnItems[x], "metadata") => returnItems[x].metadata = last.metadata
               /\ Has(returnItems[x], "updateCount") =>
                    returnItems[x].updateCount = last.update_count

\* C26 witness: a statement needed two pages whose metadata and update counts
\* differ, and the aggregate record carries those of the second
C26_Witness ==
    /\ SqlItemShaped
    /\ cur.additional = Prop("includeMetadata", TRUE)
    /\ Len(pages) = 2
    /\ pages[1].metadata # pages[2].metadata
    /\ pages[1].update_count # pages[2].update_count
    /\ \E x \in RecordsOf(i) :
         /\ returnItems[x].metadata = pages[2].metadata
         /\ returnItems[x].updateCount = pages[2].update_count

\* ----------------------------------------------------------------- C22
\* the rows of a sequence of pages, page after page
RECURSIVE ConcatPages(_)
ConcatPages(ps) == IF ps = << >> THEN << >> ELSE ps[1].data \o ConcatPages(Tail(ps))

\* C22: the rows an SQL item has pushed are the rows of the pages its
\* statement received, page after page and in the order within each page: as
\* rows of the one aggregate record, or in perRow mode as the row of one
\* record each, which are the last records of returnItems in that order.
C22_RowsAreThePagesInOrder ==
    SqlItemShaped =>
      LET all   == ConcatPages(pages)
          first == Len(returnItems) - Len(all)
      IN  IF Has(cur.additional, "outputMode") /\ cur.additional.outputMode = "perRow"
            THEN /\ RecordsOf(i) = (first + 1)..Len(returnItems)
                 /\ \A k \in 1..Len(all) : returnItems[first + k].row = all[k]
            ELSE /\ RecordsOf(i) = {Len(returnItems)}
                 /\ returnItems[Len(returnItems)].rows = all

\* C22 witness: a perRow item of a statement that received two pages of two
\* rows each has pushed four records
C22_Witness ==
    /\ SqlItemShaped
    /\ cur.additional = Prop("outputMode", "perRow")
    /\ Len(pages) = 2
    /\ Len(pages[1].data) = 2
    /\ Len(pages[2].data) = 2
    /\ Cardinality(RecordsOf(i)) = 4
    /\ returnItems[Len(returnItems)].row = pages[2].data[2]
    /\ returnItems[Len(returnItems) - 3].row = pages[1].data[1]

\* ----------------------------------------------------------------- C27
\* C27: an item whose mode is 'sql' makes no clcommand and no CL execute; an
\* item with any other mode makes no parse, query, execute or fetchMore, its
\* clcommand carries the item's cl text, and at the head of the try block the
\* clcommand is what it can do. Whatever the mode, a failure in catch is the
\* failure of a call or of the parameters, and every item that was worked
\* through has submitted a statement or a command or had its parameters
\* rejected.
C27_DispatchOnSqlOnly ==
    /\ cur # NoCur =>
         IF cur.mode = "sql"
           THEN /\ CallsFor("clcommand", i) = {} /\ CallsFor("clexecute", i) = {}
                /\ pc # "clexecute"
           ELSE /\ \A op \in {"parse", "query", "execute", "fetchMore"} : CallsFor(op, i) = {}
                /\ pc \notin {"execute", "paging"}
                /\ \A p \in CallsFor("clcommand", i) : log[p].arg = cur.cl
                /\ pc = "try" => ENABLED ClCommandOk
    /\ pc = "catch" => (log # << >> /\ ~log[Len(log)].ok /\ log[Len(log)].item = i)
    /\ \A k \in 0..(i - 1) :
         IF resolved[k + 1].mode = "sql"
           THEN CallsFor("query", k) \cup CallsFor("parse", k) # {}
           ELSE Cardinality(CallsFor("clcommand", k)) = 1

\* C27 witness: an item whose mode is 'SQL' has run as a CL command and pushed
\* the command's record
C27_Witness ==
    /\ cur.mode = "SQL"
    /\ pc = "finally"
    /\ completion = "normal"
    /\ \E p \in CallsFor("clcommand", i) : log[p].ok /\ log[p].arg = cur.cl
    /\ \E x \in RecordsOf(i) : DOMAIN returnItems[x] = {"success", "data", "message"}

\* ----------------------------------------------------------------- C21
\* String(e) of the values the runs raise
StringForm(e) ==
    CASE e.class = "Error"  -> e.name
      [] e.class = "string" -> e.value
      [] e.class = "null"   -> "null"
      [] e.class = "Object" -> "[object Object]"

\* C21: the error record of a tolerated failure holds normalizeError of the
\* raised value: message is there, the value's message when it has a non-empty
\* one and else its string form; code is the value's code when it has one,
\* else its sqlcode when it has one, else missing; name, sqlState and stack
\* are those of the value when it has them, else missing; there is no other
\* key.
C21_NormalizedError ==
    (pc = "finally" /\ completion = "continue") =>
      \E x \in 1..Len(returnItems) :
        /\ RecordsOf(i) = {x}
        /\ DOMAIN returnItems[x] = {"error"}
        /\ LET n == returnItems[x].error
           IN  /\ DOMAIN n \subseteq {"message", "name", "code", "sqlState", "stack"}
               /\ Has(n, "message")
               /\ n.message = (IF Has(err, "message") /\ err.message # ""
                                 THEN err.message ELSE StringForm(err))
               /\ IF Has(err, "code") THEN Has(n, "code") /\ n.code = err.code
                  ELSE IF Has(err, "sqlcode") THEN Has(n, "code") /\ n.code = err.sqlcode
                  ELSE ~Has(n, "code")
               /\ \A k \in {"name", "sqlState", "stack"} :
                    IF Has(err, k) THEN Has(n, k) /\ n[k] = err[k] ELSE ~Has(n, k)

\* C21 witness: a tolerant run has pushed the error record of an Error that
\* carries both code and sqlcode
C21_Witness ==
    /\ pc = "finally"
    /\ completion = "continue"
    /\ Has(err, "code") /\ Has(err, "sqlcode")
    /\ \E x \in RecordsOf(i) :
         returnItems[x].error = [message |-> "connection lost", name |-> "Error",
                                 code |-> 104, stack |-> "stack"]

====
